---- MODULE Spec2Model ----
(***************************************************************************)
(* AthenaQueryClient (src/src/athena-query-client.ts): one query() call    *)
(* as a state machine over its awaits (submit, status poll, timeout, page  *)
(* fetch), and mapData as an operator.                                     *)
(*                                                                         *)
(* JavaScript values: an optional string is Undefined (<<>>) or Some(s)    *)
(* (<<s>>).  A raw row is the sequence of the VarCharValue of its Data     *)
(* cells.  A mapped object is a function from property keys to strings.    *)
(***************************************************************************)
EXTENDS Integers, Sequences, FiniteSets, TLC

VARIABLES
    pc,                \* position of the call: idle, submit, status, sleep, fetch, mapping, done
    QueryExecutionId,  \* the id returned by StartQueryExecution (Undefined before)
    nextToken,         \* getQueryResults: let nextToken
    allRows,           \* getQueryResults: const allRows
    outcome,           \* how query() settled: pending, returned or threw
    requests,          \* commands sent through client.send, in order
    observed,          \* GetQueryExecution responses received, in order
    pages,             \* GetQueryResults responses received, in order
    sleeps,            \* timeout(msTime) calls made, in order (msTime of each)
    sqlQuery,          \* query(sqlQuery): the argument of the call
    rejected,          \* commands whose client.send rejected, in order
    context,           \* this.database, this.catalog, this.workGroup, this.resultReuseConfiguration
    other,             \* the frame of a second query() call on the same client, suspended at an await
    limits             \* what the service may still answer: polls, pages, rows per page

\* the variables of one query() call (its frame and what it exchanged with the service)
callVars == <<pc, QueryExecutionId, nextToken, allRows, outcome, requests, observed, pages,
              sleeps, sqlQuery, rejected>>

vars == <<callVars, context, other, limits>>

(* ------------------------------ bounds -------------------------------- *)
MaxPolls == 2      \* QUEUED/RUNNING observations the service makes before a terminal one
MaxPages == 2      \* result pages the service delivers
MaxPageRows == 2   \* rows in one result page (Spec)
MaxCells == 2      \* cells in one raw row (SpecMap)
MaxRows == 3       \* raw rows handed to mapData (SpecMap)

(* --------------------------- JavaScript values ------------------------ *)
Undefined == <<>>
Some(s) == <<s>>

\* if (v) ... on an optional string: undefined and '' are falsy
Truthy(v) == v # Undefined /\ v # Some("")

\* `${v}` : template-literal conversion of an optional string
TemplateString(v) == IF v = Undefined THEN "undefined" ELSE v[1]

\* obj[k] with k an optional string: the property key is String(k)
PropertyKey(k) == IF k = Undefined THEN "undefined" ELSE k[1]

(* ------------------------- the service's answers ---------------------- *)
QueryExecutionState == {"QUEUED", "RUNNING", "SUCCEEDED", "FAILED", "CANCELLED"}
ExecutionIds == {"q1", "q2"}
\* StateChangeReason of a GetQueryExecution response (optional)
Reasons == {Undefined, Some("syntax error"), Some("Query was cancelled")}
\* NextToken of a GetQueryResults response: absent, or a token (the service's
\* tokens have length >= 1)
Tokens == {Some("t1"), Some("t2")}
\* VarCharValue of a header cell (a column name) and of a data cell: absent or a string
ColumnNames == {Undefined, Some("a"), Some("b")}
CellValues == {Undefined, Some("1")}

RECURSIVE SeqsUpTo(_, _)
\* all sequences over S of length <= n
SeqsUpTo(S, n) ==
    IF n = 0 THEN {<<>>}
    ELSE LET shorter == SeqsUpTo(S, n - 1)
         IN shorter \cup {Append(s, x) : s \in {t \in shorter : Len(t) = n - 1}, x \in S}

\* rows of a result page in Spec: one cell each
PageRowSet == {<<v>> : v \in ColumnNames \ {Undefined}}
\* ResultSet of a GetQueryResults response: absent, or its Rows
ResultSets == {Undefined} \cup {Some(rs) : rs \in SeqsUpTo(PageRowSet, limits.pageRows)}

\* inputs of mapData in SpecMap: no row, or a header row and the data rows
HeaderRows == SeqsUpTo(ColumnNames, MaxCells)
DataRows == SeqsUpTo(CellValues, MaxCells)
RawRowSeqs ==
    {<<>>} \cup {<<h>> \o d : h \in HeaderRows, d \in SeqsUpTo(DataRows, MaxRows - 1)}

(* ------------------------------ outcomes ------------------------------ *)
Pending == [kind |-> "pending", name |-> "", message |-> "", value |-> <<>>]
Returned(v) == [kind |-> "returned", name |-> "", message |-> "", value |-> v]
\* the promise resolves with undefined (a function body that ends without a return)
ReturnedUndefined == [kind |-> "returned undefined", name |-> "", message |-> "", value |-> <<>>]
Threw(n, m) == [kind |-> "threw", name |-> n, message |-> m, value |-> <<>>]

\* a rejected client.send: the SDK's exception, propagated unchanged
ServiceException == Threw("ServiceException", "service error")

(* ------------------------------ commands ------------------------------ *)
\* variant of StartQueryExecutionCommand: the work group is always the default
StartQueryExecutionCommandPrimary(sql, ctx) ==
    [op |-> "StartQueryExecution", QueryExecutionId |-> Undefined, NextToken |-> Undefined,
     input |-> Some([QueryString |-> sql,
                     Database |-> ctx.database,
                     Catalog |-> ctx.catalog,
                     WorkGroup |-> "primary",
                     ResultReuseConfiguration |-> ctx.resultReuseConfiguration])]

\* queryExecutionInput of query(sqlQuery), built from the client's fields
StartQueryExecutionCommand(sql, ctx) ==
    [op |-> "StartQueryExecution", QueryExecutionId |-> Undefined, NextToken |-> Undefined,
     input |-> Some([QueryString |-> sql,
                     Database |-> ctx.database,
                     Catalog |-> ctx.catalog,
                     WorkGroup |-> ctx.workGroup,
                     ResultReuseConfiguration |-> ctx.resultReuseConfiguration])]
GetQueryExecutionCommand(id) ==
    [op |-> "GetQueryExecution", QueryExecutionId |-> id, NextToken |-> Undefined,
     input |-> Undefined]
\* { QueryExecutionId, ...(nextToken && { NextToken: nextToken }) }
GetQueryResultsCommand(id, token) ==
    [op |-> "GetQueryResults", QueryExecutionId |-> id,
     NextToken |-> IF Truthy(token) THEN token ELSE Undefined,
     input |-> Undefined]

(* ----------------------------- constructor ---------------------------- *)
\* the class's field initialisers for resultReuseConfiguration
DefaultResultReuse ==
    [ResultReuseByAgeConfiguration |-> [Enabled |-> TRUE, MaxAgeInMinutes |-> <<60>>]]

\* constructor(config): WorkGroup and ResultReuseConfiguration override the defaults
\* when given (truthy)
Construct(config) ==
    [database |-> config.Database,
     catalog |-> config.Catalog,
     workGroup |-> IF Truthy(config.WorkGroup) THEN config.WorkGroup[1] ELSE "primary",
     resultReuseConfiguration |->
        IF config.ResultReuseConfiguration # Undefined
        THEN config.ResultReuseConfiguration[1]
        ELSE DefaultResultReuse]

\* AthenaQueryClientConfig values given to the constructor
Configs ==
    [Database : {"db"},
     Catalog : {"AwsDataCatalog"},
     WorkGroup : {Undefined, Some(""), Some("wg")},
     ResultReuseConfiguration :
        {Undefined,
         Some([ResultReuseByAgeConfiguration |->
                  [Enabled |-> FALSE, MaxAgeInMinutes |-> Undefined]])}]

\* the configuration with only the required fields
PlainConfig ==
    [Database |-> "db", Catalog |-> "AwsDataCatalog", WorkGroup |-> Undefined,
     ResultReuseConfiguration |-> Undefined]

\* the query texts callers pass
SqlQueries == {"SELECT 1", "SELECT 2"}

(* ------------------------------- mapData ------------------------------ *)
\* columns[i]: undefined beyond the header's length
ColumnAt(columns, i) == IF i <= Len(columns) THEN columns[i] ELSE Undefined

\* variant of CellString: an absent value is converted, not replaced by ''
CellStringUnguarded(v) == IF v = Undefined THEN "undefined" ELSE v[1]

\* if (value.VarCharValue) value.VarCharValue else ''
CellString(v) == IF Truthy(v) THEN v[1] ELSE ""

\* variant of MappedObject: one field per header column, '' where the row has no cell
MappedObjectPerColumn(columns, item, n) ==
    [k \in {PropertyKey(columns[j]) : j \in 1..Len(columns)} |->
        LET js == {j \in 1..Len(columns) : PropertyKey(columns[j]) = k /\ j <= n}
        IN IF js = {} THEN ""
           ELSE LET last == CHOOSE j \in js : \A j2 \in js : j2 <= j
                IN IF Truthy(item[last]) THEN item[last][1] ELSE ""]

RECURSIVE MappedObject(_, _, _)
\* item.Data.forEach((value, i) => mappedObject[columns[i]] = ...) over the first n cells
MappedObject(columns, item, n) ==
    IF n = 0 THEN [k \in {} |-> ""]
    ELSE LET prev == MappedObject(columns, item, n - 1)
             key == PropertyKey(ColumnAt(columns, n))
         IN [k \in (DOMAIN prev) \cup {key} |->
                IF k = key THEN CellString(item[n]) ELSE prev[k]]

\* variant of mapData: the header row is not skipped
mapDataKeepsHeader(rows) ==
    IF Len(rows) = 0
    THEN Threw("TypeError", "Cannot read properties of undefined (reading 'Data')")
    ELSE Returned([i \in 1..Len(rows) |-> MappedObject(rows[1], rows[i], Len(rows[i]))])

\* mapData({ Rows: rows }): data.Rows[0].Data throws a TypeError when there is no row
mapData(rows) ==
    IF Len(rows) = 0
    THEN Threw("TypeError", "Cannot read properties of undefined (reading 'Data')")
    ELSE LET columns == rows[1]
         IN Returned([i \in 1..(Len(rows) - 1) |->
                        MappedObject(columns, rows[i + 1], Len(rows[i + 1]))])

(* ------------------------ checkQueryExequtionState --------------------- *)
\* variant of PollInterval: the wait grows with every poll
PollIntervalBackoff == 1000 * (Len(sleeps) + 1)

\* this.timeout(1000)
PollInterval == 1000

\* variant of IsPending: the poller gives up after its first wait
IsPendingOnce(state) == state \in {"QUEUED", "RUNNING"} /\ Len(sleeps) < 1

\* variant of IsPending: the QUEUED test is left out
IsPendingRunningOnly(state) == state = "RUNNING"

\* state === QUEUED || state === RUNNING
IsPending(state) == state \in {"QUEUED", "RUNNING"}

\* variant of QueryFailed: the error is returned instead of thrown
QueryFailedReturned(reason) == ReturnedUndefined

\* variant of QueryFailed: the reason is left out of the message
QueryFailedNoReason(reason) == Threw("Error", "Query failed")

\* new Error(`Query failed: ${response.QueryExecution.Status.StateChangeReason}`)
QueryFailed(reason) == Threw("Error", "Query failed: " \o TemplateString(reason))

\* variant of QueryCancelled: CANCELLED reported through the FAILED message
QueryCancelledAsFailed == Threw("Error", "Query failed: cancelled")

\* new Error('Query was cancelled')
QueryCancelled == Threw("Error", "Query was cancelled")

\* variant of PushRows: the page's rows are put in front of the accumulator
PushRowsInFront(rows, ResultSet) == (IF ResultSet = Undefined THEN <<>> ELSE ResultSet[1]) \o rows

\* variant of PushRows: the accumulator is overwritten by the page's rows
PushRowsOverwrite(rows, ResultSet) == IF ResultSet = Undefined THEN <<>> ELSE ResultSet[1]

\* allRows.push(...(ResultSet?.Rows || []))
PushRows(rows, ResultSet) == rows \o (IF ResultSet = Undefined THEN <<>> ELSE ResultSet[1])

\* } while (nextToken)
MorePages(token) == Truthy(token)

NumPending == Cardinality({i \in 1..Len(observed) : IsPending(observed[i].State)})

\* what the service may answer in Spec
FullLimits == [polls |-> MaxPolls, pages |-> MaxPages, pageRows |-> MaxPageRows]

\* what the service may answer to each of two calls in SpecClient: a token and a
\* last page of at most one row
ClientLimits == [polls |-> MaxPolls - 1, pages |-> 2, pageRows |-> 1]

(* -------------------------------- Init -------------------------------- *)
\* the frame of a call that has not started
IdleFrame ==
    [pc |-> "idle", QueryExecutionId |-> Undefined, nextToken |-> Undefined,
     allRows |-> <<>>, outcome |-> Pending, requests |-> <<>>, observed |-> <<>>,
     pages |-> <<>>, sleeps |-> <<>>, sqlQuery |-> Undefined, rejected |-> <<>>]

\* the running call's variables as a frame
Frame ==
    [pc |-> pc, QueryExecutionId |-> QueryExecutionId, nextToken |-> nextToken,
     allRows |-> allRows, outcome |-> outcome, requests |-> requests,
     observed |-> observed, pages |-> pages, sleeps |-> sleeps,
     sqlQuery |-> sqlQuery, rejected |-> rejected]

InitCall ==
    /\ pc = "idle"
    /\ QueryExecutionId = Undefined
    /\ nextToken = Undefined
    /\ allRows = <<>>
    /\ outcome = Pending
    /\ requests = <<>>
    /\ observed = <<>>
    /\ pages = <<>>
    /\ sleeps = <<>>
    /\ sqlQuery = Undefined
    /\ rejected = <<>>
    /\ other = IdleFrame

\* new AthenaQueryClient(PlainConfig), no query() called yet
Init ==
    /\ InitCall
    /\ context = Construct(PlainConfig)
    /\ limits = FullLimits

(* ------------------------------- query() ------------------------------ *)
\* query(sqlQuery) up to its first await: sends StartQueryExecutionCommand
query ==
    /\ pc = "idle"
    /\ \E sql \in SqlQueries :
        /\ sqlQuery' = Some(sql)
        /\ requests' = Append(requests, StartQueryExecutionCommand(sql, context))
    /\ pc' = "submit"
    /\ UNCHANGED <<QueryExecutionId, nextToken, allRows, outcome, observed, pages, sleeps,
                   rejected, context, other, limits>>

\* the submit resolves with an id (no two executions share one):
\* checkQueryExequtionStateAndGetData(id) sends its first GetQueryExecutionCommand
StartQueryExecutionResolved ==
    /\ pc = "submit"
    /\ \E id \in ExecutionIds :
        /\ Some(id) # other.QueryExecutionId
        /\ QueryExecutionId' = Some(id)
        /\ requests' = Append(requests, GetQueryExecutionCommand(Some(id)))
    /\ pc' = "status"
    /\ UNCHANGED <<nextToken, allRows, outcome, observed, pages, sleeps, sqlQuery,
                   rejected, context, other, limits>>

\* variant of Propagate: the rejection is caught and the same command sent again
PropagateRetry ==
    /\ requests' = Append(requests, requests[Len(requests)])
    /\ UNCHANGED <<outcome, pc>>

\* nothing catches a rejected await: query() rejects with the same error, sending
\* nothing more
Propagate ==
    /\ outcome' = ServiceException
    /\ pc' = "done"
    /\ UNCHANGED requests

\* a client.send rejects (the submit, a status check or a page fetch)
SendRejected ==
    /\ pc \in {"submit", "status", "fetch"}
    /\ rejected' = Append(rejected, requests[Len(requests)])
    /\ Propagate
    /\ UNCHANGED <<QueryExecutionId, nextToken, allRows, observed, pages, sleeps,
                   sqlQuery, context, other, limits>>

\* variant of StatusResolved: a finished execution is fetched whatever its state
StatusResolvedFetchUnlessPending(state, reason) ==
    /\ observed' = Append(observed, [State |-> state, StateChangeReason |-> reason])
    /\ IF IsPending(state)
       THEN /\ sleeps' = Append(sleeps, PollInterval)
            /\ pc' = "sleep"
            /\ UNCHANGED <<nextToken, allRows, outcome, requests>>
       ELSE /\ nextToken' = Undefined
            /\ allRows' = <<>>
            /\ requests' = Append(requests, GetQueryResultsCommand(QueryExecutionId, Undefined))
            /\ pc' = "fetch"
            /\ UNCHANGED <<outcome, sleeps>>

\* the if/else chain on response.QueryExecution.Status.State
StatusResolved(state, reason) ==
    /\ observed' = Append(observed, [State |-> state, StateChangeReason |-> reason])
    /\ CASE IsPending(state) ->
            \* await this.timeout(1000)
            /\ sleeps' = Append(sleeps, PollInterval)
            /\ pc' = "sleep"
            /\ UNCHANGED <<nextToken, allRows, outcome, requests>>
         [] state = "SUCCEEDED" ->
            \* getQueryResults(id): empty accumulator, first command without a token
            /\ nextToken' = Undefined
            /\ allRows' = <<>>
            /\ requests' = Append(requests,
                                  GetQueryResultsCommand(QueryExecutionId, Undefined))
            /\ pc' = "fetch"
            /\ UNCHANGED <<outcome, sleeps>>
         [] state = "FAILED" ->
            /\ outcome' = QueryFailed(reason)
            /\ pc' = "done"
            /\ UNCHANGED <<nextToken, allRows, requests, sleeps>>
         [] state = "CANCELLED" ->
            /\ outcome' = QueryCancelled
            /\ pc' = "done"
            /\ UNCHANGED <<nextToken, allRows, requests, sleeps>>
         [] OTHER ->
            \* no branch taken: the async function returns undefined
            /\ outcome' = ReturnedUndefined
            /\ pc' = "done"
            /\ UNCHANGED <<nextToken, allRows, requests, sleeps>>

\* the status check resolves with one of the service's five states
GetQueryExecutionResolved ==
    /\ pc = "status"
    /\ \E state \in QueryExecutionState, reason \in Reasons :
        /\ state \in {"QUEUED", "RUNNING"} => NumPending < limits.polls
        /\ state \in {"QUEUED", "RUNNING", "SUCCEEDED"} => reason = Undefined
        /\ StatusResolved(state, reason)
    /\ UNCHANGED <<QueryExecutionId, pages, sqlQuery, rejected, context, other, limits>>

\* State values the chain does not test: "undefined" stands for a response without
\* State (the field is optional), "PAUSED" for a value outside the five
UnrecognisedStates == {"undefined", "PAUSED"}

\* the status check resolves with a State that is none of the five
GetQueryExecutionUnrecognised ==
    /\ pc = "status"
    /\ \E state \in UnrecognisedStates : StatusResolved(state, Undefined)
    /\ UNCHANGED <<QueryExecutionId, pages, sqlQuery, rejected, context, other, limits>>

\* variant of timeoutElapsed: the promise is never resolved
timeoutNeverResolves ==
    /\ FALSE
    /\ UNCHANGED vars

\* the timer fires: the recursive call sends the next GetQueryExecutionCommand
timeoutElapsed ==
    /\ pc = "sleep"
    /\ requests' = Append(requests, GetQueryExecutionCommand(QueryExecutionId))
    /\ pc' = "status"
    /\ UNCHANGED <<QueryExecutionId, nextToken, allRows, outcome, observed, pages, sleeps,
                   sqlQuery, rejected, context, other, limits>>

(* --------------------------- getQueryResults -------------------------- *)
\* variant of GetQueryResultsResolved: the next command is sent twice (once without
\* await)
GetQueryResultsResolvedSendsTwice ==
    /\ pc = "fetch"
    /\ \E ResultSet \in ResultSets, NextToken \in {Undefined} \cup Tokens :
        /\ NextToken # Undefined => Len(pages) + 1 < limits.pages
        /\ pages' = Append(pages, [ResultSet |-> ResultSet, NextToken |-> NextToken])
        /\ allRows' = PushRows(allRows, ResultSet)
        /\ nextToken' = NextToken
        /\ IF MorePages(NextToken)
           THEN /\ requests' = requests \o <<GetQueryResultsCommand(QueryExecutionId, NextToken),
                                              GetQueryResultsCommand(QueryExecutionId, NextToken)>>
                /\ pc' = "fetch"
                /\ UNCHANGED outcome
           ELSE /\ outcome' = mapData(PushRows(allRows, ResultSet))
                /\ pc' = "done"
                /\ UNCHANGED requests
    /\ UNCHANGED <<QueryExecutionId, observed, sleeps, sqlQuery, rejected, context, other,
                   limits>>

\* a page resolves: one iteration of the do/while, and mapData after the last
GetQueryResultsResolved ==
    /\ pc = "fetch"
    /\ \E ResultSet \in ResultSets, NextToken \in {Undefined} \cup Tokens :
        /\ NextToken # Undefined => Len(pages) + 1 < limits.pages
        /\ pages' = Append(pages, [ResultSet |-> ResultSet, NextToken |-> NextToken])
        /\ allRows' = PushRows(allRows, ResultSet)
        /\ nextToken' = NextToken
        /\ IF MorePages(NextToken)
           THEN /\ requests' = Append(requests,
                                      GetQueryResultsCommand(QueryExecutionId, NextToken))
                /\ pc' = "fetch"
                /\ UNCHANGED outcome
           ELSE /\ outcome' = mapData(PushRows(allRows, ResultSet))
                /\ pc' = "done"
                /\ UNCHANGED requests
    /\ UNCHANGED <<QueryExecutionId, observed, sleeps, sqlQuery, rejected, context, other,
                   limits>>

Next ==
    \/ query
    \/ StartQueryExecutionResolved
    \/ SendRejected
    \/ GetQueryExecutionResolved
    \/ timeoutElapsed
    \/ GetQueryResultsResolved

Spec == Init /\ [][Next]_vars

(* ------------------- any State value from the service ----------------- *)
NextAny ==
    \/ Next
    \/ GetQueryExecutionUnrecognised

SpecAny == Init /\ [][NextAny]_vars

(* ------------------ responses arrive and timers fire ------------------ *)
\* every client.send settles and every setTimeout fires; the service's answers
\* are bounded by limits, so it ends up reporting a terminal state and a last page
SpecLive == Init /\ [][Next]_vars /\ WF_vars(Next)

(* --------------------- two calls on one client ------------------------ *)
\* variant of Resume: allRows is a field of the client, shared by the calls
ResumeSharedRows ==
    /\ other.pc # "done"
    /\ other' = Frame
    /\ pc' = other.pc
    /\ QueryExecutionId' = other.QueryExecutionId
    /\ nextToken' = other.nextToken
    /\ outcome' = other.outcome
    /\ requests' = other.requests
    /\ observed' = other.observed
    /\ pages' = other.pages
    /\ sleeps' = other.sleeps
    /\ sqlQuery' = other.sqlQuery
    /\ rejected' = other.rejected
    /\ UNCHANGED <<allRows, context, limits>>

\* the running call is suspended at its await and the event loop runs the other
\* call; parameters and locals (QueryExecutionId, nextToken, allRows) belong to
\* the call, the client's fields are shared
Resume ==
    /\ other.pc # "done"
    /\ other' = Frame
    /\ pc' = other.pc
    /\ QueryExecutionId' = other.QueryExecutionId
    /\ nextToken' = other.nextToken
    /\ allRows' = other.allRows
    /\ outcome' = other.outcome
    /\ requests' = other.requests
    /\ observed' = other.observed
    /\ pages' = other.pages
    /\ sleeps' = other.sleeps
    /\ sqlQuery' = other.sqlQuery
    /\ rejected' = other.rejected
    /\ UNCHANGED <<context, limits>>

\* new AthenaQueryClient(config) for any config, no query() called yet
InitClient ==
    /\ InitCall
    /\ \E config \in Configs : context = Construct(config)
    /\ limits = ClientLimits

NextClient ==
    \/ Next
    \/ Resume

SpecClient == InitClient /\ [][NextClient]_vars

(* ----------------------- mapData on bounded inputs -------------------- *)
\* the call is at `return this.mapData({ Rows: allRows })` with any accumulated rows
InitMap ==
    /\ pc = "mapping"
    /\ allRows \in RawRowSeqs
    /\ QueryExecutionId = Some("q1")
    /\ nextToken = Undefined
    /\ outcome = Pending
    /\ requests = <<>>
    /\ observed = <<>>
    /\ pages = <<>>
    /\ sleeps = <<>>
    /\ sqlQuery = Some("SELECT 1")
    /\ rejected = <<>>
    /\ other = IdleFrame
    /\ context = Construct(PlainConfig)
    /\ limits = FullLimits

mapDataCall ==
    /\ pc = "mapping"
    /\ outcome' = mapData(allRows)
    /\ pc' = "done"
    /\ UNCHANGED <<QueryExecutionId, nextToken, allRows, requests, observed, pages, sleeps,
                   sqlQuery, rejected, context, other, limits>>

NextMap == mapDataCall

SpecMap == InitMap /\ [][NextMap]_vars

(* ====================================================================== *)
(* Properties                                                             *)
(* ====================================================================== *)
TerminalStates == {"SUCCEEDED", "FAILED", "CANCELLED"}

CountOp(op) == Cardinality({i \in 1..Len(requests) : requests[i].op = op})

Observed(state) == \E i \in 1..Len(observed) : observed[i].State = state

FailedPrefix == "Query failed: "

\* the failure raised for a FAILED execution (the spec's ExecutionFailed)
IsExecutionFailed(o) ==
    /\ o.kind = "threw"
    /\ o.name = "Error"
    /\ Len(o.message) >= Len(FailedPrefix)
    /\ SubSeq(o.message, 1, Len(FailedPrefix)) = FailedPrefix

\* the failure raised for a CANCELLED execution (the spec's ExecutionCancelled)
IsExecutionCancelled(o) ==
    /\ o.kind = "threw"
    /\ o.name = "Error"
    /\ o.message = "Query was cancelled"

\* C1: once a status check has observed FAILED (after any QUEUED/RUNNING
\* observations), the call has ended by raising the execution-failed error and
\* no GetQueryResults request was, or will be, sent.
C1_FailedRaisesWithoutFetch ==
    Observed("FAILED") =>
        /\ pc = "done"
        /\ IsExecutionFailed(outcome)
        /\ CountOp("GetQueryResults") = 0

C1_Witness ==
    /\ pc = "done"
    /\ Len(observed) = 3
    /\ observed[1].State = "QUEUED"
    /\ observed[2].State = "RUNNING"
    /\ observed[3].State = "FAILED"
    /\ IsExecutionFailed(outcome)

\* C2 as stated: the failure raised for FAILED carries exactly the
\* service-supplied reason, not altered, prefixed or wrapped.
C2_ReasonVerbatim ==
    \A i \in 1..Len(observed) :
        (observed[i].State = "FAILED" /\ observed[i].StateChangeReason # Undefined) =>
            outcome.message = observed[i].StateChangeReason[1]

\* C2 amended: the failure raised for FAILED carries the message
\* "Query failed: " followed by the service-supplied reason, unaltered.
C2_ReasonAfterPrefix ==
    \A i \in 1..Len(observed) :
        (observed[i].State = "FAILED" /\ observed[i].StateChangeReason # Undefined) =>
            /\ outcome.kind = "threw"
            /\ outcome.message = "Query failed: " \o observed[i].StateChangeReason[1]

C2_Witness ==
    /\ pc = "done"
    /\ Len(observed) > 0
    /\ observed[Len(observed)] = [State |-> "FAILED", StateChangeReason |-> Some("syntax error")]
    /\ outcome.message = "Query failed: syntax error"

\* C3: once a status check has observed CANCELLED, the call has ended by raising
\* the cancelled error, which is not the execution-failed error and whose message
\* is the same whatever reason the service gave, and no GetQueryResults request
\* was sent.
C3_CancelledRaisesWithoutFetch ==
    Observed("CANCELLED") =>
        /\ pc = "done"
        /\ IsExecutionCancelled(outcome)
        /\ ~IsExecutionFailed(outcome)
        /\ CountOp("GetQueryResults") = 0

C3_Witness ==
    /\ pc = "done"
    /\ Len(observed) = 2
    /\ observed[1].State = "RUNNING"
    /\ observed[2] = [State |-> "CANCELLED", StateChangeReason |-> Some("syntax error")]
    /\ IsExecutionCancelled(outcome)

\* C4: the poller sends one GetQueryExecution request per status observed, in
\* order: after k QUEUED/RUNNING observations followed by a terminal one it has
\* sent exactly k+1, it has acted on that terminal status, and it polls no more;
\* while the last observation is QUEUED or RUNNING it is still polling.
C4_OnePollPerObservation ==
    LET n == Len(observed)
        polls == CountOp("GetQueryExecution")
    IN /\ \A i \in 1..(n - 1) : observed[i].State \in {"QUEUED", "RUNNING"}
       /\ (n > 0 /\ observed[n].State \in TerminalStates) =>
            /\ polls = n
            /\ NumPending = n - 1
            /\ pc \in {"fetch", "done"}
            /\ observed[n].State = "SUCCEEDED" => CountOp("GetQueryResults") >= 1
            /\ observed[n].State = "FAILED" => IsExecutionFailed(outcome)
            /\ observed[n].State = "CANCELLED" => IsExecutionCancelled(outcome)
       /\ (n > 0 /\ observed[n].State \in {"QUEUED", "RUNNING"}) =>
            \/ pc = "sleep" /\ polls = n
            \/ pc = "status" /\ polls = n + 1
            \/ pc = "done" /\ polls = n + 1 /\ outcome = ServiceException
       /\ n = 0 => polls = (IF QueryExecutionId = Undefined THEN 0 ELSE 1)

C4_Witness ==
    /\ Len(observed) = 3
    /\ observed[1].State = "RUNNING"
    /\ observed[2].State = "QUEUED"
    /\ observed[3].State = "SUCCEEDED"
    /\ CountOp("GetQueryExecution") = 3

\* the GetQueryResults commands sent, in order
Fetches == SelectSeq(requests, LAMBDA r : r.op = "GetQueryResults")

RowsOfPage(p) == IF p.ResultSet = Undefined THEN <<>> ELSE p.ResultSet[1]

RECURSIVE RowsOfPages(_)
\* rows(P1) + ... + rows(Pn) of the first n pages received
RowsOfPages(n) == IF n = 0 THEN <<>> ELSE RowsOfPages(n - 1) \o RowsOfPage(pages[n])

\* the last page received carries no continuation token
PagesComplete == Len(pages) >= 1 /\ pages[Len(pages)].NextToken = Undefined

\* C5: with pages 1..n-1 carrying a token and page n none, exactly n
\* GetQueryResults requests are sent, the first without a token and request
\* i+1 with the token of response i, and the accumulated rows are
\* rows(P1) + ... + rows(Pn) in that order.
C5_PaginatorConcatenates ==
    LET n == Len(pages)
    IN /\ Len(Fetches) >= 1 => Fetches[1].NextToken = Undefined
       /\ \A i \in 1..(n - 1) : pages[i].NextToken # Undefined
       /\ \A i \in 1..(Len(Fetches) - 1) :
            i <= n /\ Fetches[i + 1].NextToken = pages[i].NextToken
       /\ \A i \in 1..Len(Fetches) : Fetches[i].QueryExecutionId = QueryExecutionId
       /\ allRows = RowsOfPages(n)
       /\ PagesComplete => Len(Fetches) = n /\ pc = "done"
       /\ (n >= 1 /\ ~PagesComplete) => Len(Fetches) = n + 1

C5_Witness ==
    /\ pc = "done"
    /\ Len(pages) = 2
    /\ pages[1] = [ResultSet |-> Some(<<(<<Some("a")>>), (<<Some("b")>>)>>), NextToken |-> Some("t2")]
    /\ pages[2] = [ResultSet |-> Some(<<(<<Some("b")>>)>>), NextToken |-> Undefined]
    /\ Len(Fetches) = 2
    /\ Fetches[2].NextToken = Some("t2")
    /\ allRows = <<(<<Some("a")>>), (<<Some("b")>>), (<<Some("b")>>)>>

\* C6: when QUEUED/RUNNING observations are followed by SUCCEEDED and the
\* service has delivered all its pages, holding at least the header row between
\* them, query() returns (raising nothing) mapData of the concatenation of all
\* pages' rows: one record per row after the header.
C6_SuccessReturnsMappedRows ==
    (Observed("SUCCEEDED") /\ PagesComplete /\ Len(RowsOfPages(Len(pages))) >= 1) =>
        /\ pc = "done"
        /\ outcome.kind = "returned"
        /\ outcome = mapData(RowsOfPages(Len(pages)))
        /\ Len(outcome.value) = Len(RowsOfPages(Len(pages))) - 1

C6_Witness ==
    /\ pc = "done"
    /\ Len(observed) = 3
    /\ observed[1].State = "QUEUED"
    /\ observed[2].State = "RUNNING"
    /\ observed[3].State = "SUCCEEDED"
    /\ Len(pages) = 2
    /\ RowsOfPage(pages[1]) = <<(<<Some("a")>>), (<<Some("b")>>)>>
    /\ RowsOfPage(pages[2]) = <<(<<Some("a")>>)>>
    /\ outcome.kind = "returned"
    /\ Len(outcome.value) = 2
    /\ outcome.value[1]["a"] = "b"
    /\ outcome.value[2]["a"] = "a"

\* C7 as stated: when a SUCCEEDED execution's pages hold no row at all, query()
\* fails with the typed EmptyResultSet error.
C7_EmptyResultSetError ==
    (Observed("SUCCEEDED") /\ PagesComplete /\ Len(RowsOfPages(Len(pages))) = 0) =>
        /\ outcome.kind = "threw"
        /\ outcome.name = "EmptyResultSet"

(* ------------------------- mapData (SpecMap) -------------------------- *)
\* the name of header column j: String(undefined) for an absent name or no column j
HeaderName(j) ==
    IF j <= Len(allRows[1]) /\ allRows[1][j] # Undefined THEN allRows[1][j][1] ELSE "undefined"

\* the field value for a cell: its string, '' when absent
FieldValue(cell) == IF cell = Undefined THEN "" ELSE cell[1]

\* position j of a row is the last one of the row with its header name
LastWithName(row, j) == \A j2 \in (j + 1)..Len(row) : HeaderName(j2) # HeaderName(j)

Mapped == pc = "done" /\ Len(allRows) >= 1

\* C8: for n >= 1 input rows mapData returns n-1 records, the i-th built from
\* row i+1 (its fields are those its cells name, each holding the value of the
\* last cell with that name); a lone header row gives no record and no error.
C8_OneRecordPerDataRow ==
    Mapped =>
        /\ outcome.kind = "returned"
        /\ Len(outcome.value) = Len(allRows) - 1
        /\ \A i \in 1..(Len(allRows) - 1) :
            LET row == allRows[i + 1]
                obj == outcome.value[i]
            IN /\ DOMAIN obj = {HeaderName(j) : j \in 1..Len(row)}
               /\ \A j \in 1..Len(row) :
                    LastWithName(row, j) => obj[HeaderName(j)] = FieldValue(row[j])

C8_Witness ==
    /\ pc = "done"
    /\ allRows = <<(<<Some("a")>>), (<<Some("1")>>), (<<Undefined>>)>>
    /\ outcome.kind = "returned"
    /\ Len(outcome.value) = 2
    /\ outcome.value[1]["a"] = "1"
    /\ outcome.value[2]["a"] = ""

\* C9 as stated: the record of a data row shorter than the header has a field
\* for every (named) header column, '' for each missing trailing one.
C9_ShortRowPadded ==
    Mapped =>
        \A i \in 1..(Len(allRows) - 1) :
            Len(allRows[i + 1]) < Len(allRows[1]) =>
                /\ \A j \in 1..Len(allRows[1]) :
                    allRows[1][j] # Undefined => HeaderName(j) \in DOMAIN outcome.value[i]
                /\ \A j \in (Len(allRows[i + 1]) + 1)..Len(allRows[1]) :
                    (allRows[1][j] # Undefined /\ HeaderName(j) \in DOMAIN outcome.value[i]) =>
                        outcome.value[i][HeaderName(j)] = ""

\* C9 amended: the record of a data row shorter than the header has fields only
\* for the header columns at the positions the row has cells for; a missing
\* trailing column gets no field (no '' is filled in).
C9_ShortRowNotPadded ==
    Mapped =>
        \A i \in 1..(Len(allRows) - 1) :
            Len(allRows[i + 1]) < Len(allRows[1]) =>
                /\ DOMAIN outcome.value[i] = {HeaderName(j) : j \in 1..Len(allRows[i + 1])}
                /\ \A j \in (Len(allRows[i + 1]) + 1)..Len(allRows[1]) :
                    (\A j2 \in 1..Len(allRows[i + 1]) : HeaderName(j2) # HeaderName(j)) =>
                        HeaderName(j) \notin DOMAIN outcome.value[i]

C9_Witness ==
    /\ pc = "done"
    /\ allRows = <<(<<Some("a"), Some("b")>>), (<<Some("1")>>)>>
    /\ outcome.kind = "returned"
    /\ DOMAIN outcome.value[1] = {"a"}
    /\ outcome.value[1]["a"] = "1"

\* C10 as stated: for every data row and every cell position i (with a header
\* cell i that names a column), the field named by header cell i holds cell i's
\* value, '' when absent.
C10_EveryCellInItsField ==
    Mapped =>
        \A i \in 1..(Len(allRows) - 1) :
            \A j \in 1..Len(allRows[i + 1]) :
                (j <= Len(allRows[1]) /\ allRows[1][j] # Undefined) =>
                    /\ HeaderName(j) \in DOMAIN outcome.value[i]
                    /\ outcome.value[i][HeaderName(j)] = FieldValue(allRows[i + 1][j])

\* C10 amended: for every data row and every cell position i whose header name
\* is not repeated at a later cell of the row, the field named by header cell i
\* holds cell i's value, '' when absent.
C10_LastCellInItsField ==
    Mapped =>
        \A i \in 1..(Len(allRows) - 1) :
            \A j \in 1..Len(allRows[i + 1]) :
                (j <= Len(allRows[1]) /\ LastWithName(allRows[i + 1], j)) =>
                    /\ HeaderName(j) \in DOMAIN outcome.value[i]
                    /\ outcome.value[i][HeaderName(j)] = FieldValue(allRows[i + 1][j])

C10_Witness ==
    /\ pc = "done"
    /\ allRows = <<(<<Some("a"), Some("b")>>), (<<Some("1"), Some("1")>>), (<<Some("1"), Undefined>>)>>
    /\ outcome.kind = "returned"
    /\ outcome.value[1]["a"] = "1" /\ outcome.value[1]["b"] = "1"
    /\ outcome.value[2]["a"] = "1" /\ outcome.value[2]["b"] = ""

(* ------------------------- failures of the service -------------------- *)
\* responses the call has received: the submit's, the status checks', the pages'
Answered ==
    (IF QueryExecutionId = Undefined THEN 0 ELSE 1) + Len(observed) + Len(pages)

\* C11: when a client.send rejects (the submit, a status check or a page
\* fetch), the call has ended by raising that error, the rejected command is
\* the last one sent (it is not sent again and nothing follows it), and it is
\* the only rejection the call sees.
C11_RejectionEndsTheCall ==
    rejected # <<>> =>
        /\ pc = "done"
        /\ outcome.kind = "threw"
        /\ outcome.name = "ServiceException"
        /\ Len(rejected) = 1
        /\ rejected[1] = requests[Len(requests)]
        /\ Len(requests) = Answered + 1

C11_Witness ==
    /\ pc = "done"
    /\ Len(observed) = 2
    /\ Len(pages) = 1
    /\ Len(rejected) = 1
    /\ rejected[1].op = "GetQueryResults"
    /\ rejected[1].NextToken = Some("t1")
    /\ outcome.name = "ServiceException"

\* C12 as stated: a call that has completed either raised an error or returned
\* the records mapped from all of its result pages, whatever State the service
\* reported.
C12_ResultOrError ==
    pc = "done" =>
        \/ outcome.kind = "threw"
        \/ /\ outcome.kind = "returned"
           /\ Len(pages) >= 1
           /\ pages[Len(pages)].NextToken = Undefined
           /\ outcome = mapData(RowsOfPages(Len(pages)))

(* ------------------------ two calls on one client --------------------- *)
RECURSIVE RowsOfPageSeq(_)
\* rows(P1) + ... + rows(Pn) of a sequence of received pages
RowsOfPageSeq(ps) ==
    IF ps = <<>> THEN <<>>
    ELSE RowsOfPageSeq(SubSeq(ps, 1, Len(ps) - 1)) \o RowsOfPage(ps[Len(ps)])

\* the outcome a call has when it runs alone and receives what frame f received
OutcomeAlone(f) ==
    LET last == f.observed[Len(f.observed)]
    IN IF f.rejected # <<>> THEN Threw("ServiceException", "service error")
       ELSE IF last.State = "FAILED"
            THEN Threw("Error", "Query failed: " \o
                                (IF last.StateChangeReason = Undefined THEN "undefined"
                                 ELSE last.StateChangeReason[1]))
       ELSE IF last.State = "CANCELLED" THEN Threw("Error", "Query was cancelled")
       ELSE mapData(RowsOfPageSeq(f.pages))

\* a call's status checks and page fetches carry the id its own submit returned,
\* its accumulator holds its own pages' rows, and once done its outcome is the
\* one it has alone
CallIsItsOwn(f) ==
    /\ \A i \in 2..Len(f.requests) :
        /\ f.requests[i].op # "StartQueryExecution"
        /\ f.QueryExecutionId # Undefined
        /\ f.requests[i].QueryExecutionId = f.QueryExecutionId
    /\ f.allRows = RowsOfPageSeq(f.pages)
    /\ \A i \in 1..(Len(f.requests) - 1) :
        (f.requests[i].op = "GetQueryResults" /\ f.requests[i + 1].op = "GetQueryResults") =>
            \E j \in 1..Len(f.pages) : f.requests[i + 1].NextToken = f.pages[j].NextToken
    /\ f.pc = "done" => f.outcome = OutcomeAlone(f)

\* C13: with two query() calls in flight on one client, under every
\* interleaving of their awaits each call uses the id of its own submit in all
\* its status checks and page fetches, accumulates only its own pages, and ends
\* with the outcome it has when run alone.
C13_CallsIndependent ==
    /\ CallIsItsOwn(Frame)
    /\ CallIsItsOwn(other)
    /\ (QueryExecutionId # Undefined /\ other.QueryExecutionId # Undefined) =>
            QueryExecutionId # other.QueryExecutionId

C13_Witness ==
    /\ pc = "fetch"
    /\ other.pc = "fetch"
    /\ Len(observed) = 2
    /\ Len(other.observed) = 1
    /\ Len(pages) = 1
    /\ Len(other.pages) = 1
    /\ allRows = <<(<<Some("a")>>)>>
    /\ other.allRows = <<(<<Some("b")>>)>>
    /\ pages[1].NextToken # other.pages[1].NextToken

(* ------------------------------ the poll loop ------------------------- *)
Polling == pc \in {"status", "sleep"}

\* C14: a call leaves the polling phase only in a step in which a status check
\* observes SUCCEEDED, FAILED or CANCELLED, or in which a client.send rejects;
\* a QUEUED or RUNNING observation, however many came before, leaves it polling.
C14_PollsUntilTerminal ==
    [][(Polling /\ ~Polling') =>
            \/ /\ Len(observed') = Len(observed) + 1
               /\ observed'[Len(observed')].State \in TerminalStates
            \/ /\ Len(rejected') = Len(rejected) + 1
               /\ observed' = observed]_vars

C14_Witness ==
    /\ pc = "status"
    /\ Len(observed) = MaxPolls
    /\ \A i \in 1..Len(observed) : observed[i].State \in {"QUEUED", "RUNNING"}
    /\ Len(sleeps) = MaxPolls
    /\ outcome.kind = "pending"

(* ------------------------- order of the requests ---------------------- *)
\* commands sent and not yet settled (resolved or rejected)
Outstanding == Len(requests) - Answered - Len(rejected)

\* C15: the requests of a call are one StartQueryExecution, sent first, then
\* (once it resolved) one or more GetQueryExecution, then GetQueryResults only
\* after a status check observed SUCCEEDED and no GetQueryExecution after the
\* first GetQueryResults; at most one request is outstanding at any time.
C15_RequestOrder ==
    /\ requests # <<>> => requests[1].op = "StartQueryExecution"
    /\ \A i \in 2..Len(requests) : requests[i].op # "StartQueryExecution"
    /\ QueryExecutionId # Undefined => CountOp("GetQueryExecution") >= 1
    /\ CountOp("GetQueryExecution") >= 1 => QueryExecutionId # Undefined
    /\ CountOp("GetQueryResults") >= 1 => Observed("SUCCEEDED")
    /\ \A i \in 1..Len(requests) : \A j \in (i + 1)..Len(requests) :
        requests[i].op = "GetQueryResults" => requests[j].op = "GetQueryResults"
    /\ Outstanding \in {0, 1}
    /\ pc \in {"submit", "status", "fetch"} <=> Outstanding = 1

C15_Witness ==
    /\ pc = "done"
    /\ Len(requests) = 5
    /\ requests[1].op = "StartQueryExecution"
    /\ requests[2].op = "GetQueryExecution"
    /\ requests[3].op = "GetQueryExecution"
    /\ requests[4].op = "GetQueryResults"
    /\ requests[5].op = "GetQueryResults"
    /\ outcome.kind = "returned"

\* C16: page fetches are sequential: while a GetQueryResults request is
\* outstanding, every earlier one has been answered and its rows are in the
\* accumulator; never are two outstanding, none is sent ahead of a response.
C16_FetchesSequential ==
    /\ Len(Fetches) - Len(pages) \in {0, 1}
    /\ pc = "fetch" =>
        /\ Len(Fetches) = Len(pages) + 1
        /\ allRows = RowsOfPages(Len(pages))
        /\ Len(pages) >= 1 => Fetches[Len(Fetches)].NextToken = pages[Len(pages)].NextToken
    /\ (Len(Fetches) = Len(pages) + 1 /\ pc # "fetch") =>
        /\ rejected # <<>>
        /\ rejected[1].op = "GetQueryResults"

C16_Witness ==
    /\ pc = "fetch"
    /\ Len(pages) = 1
    /\ Len(Fetches) = 2
    /\ Len(allRows) = 2
    /\ Fetches[2].NextToken = Some("t2")

(* ------------------------------ poll pacing --------------------------- *)
\* the non-terminal observations of the call so far
PendingObservations ==
    {i \in 1..Len(observed) : observed[i].State \in {"QUEUED", "RUNNING"}}

\* C17: one wait per non-terminal observation, each of 1000 milliseconds, each
\* followed by the next status check: at most one GetQueryExecution per wait,
\* plus the first.
C17_OneSecondBetweenPolls ==
    /\ Len(sleeps) = Cardinality(PendingObservations)
    /\ \A i \in 1..Len(sleeps) : sleeps[i] = 1000
    /\ CountOp("GetQueryExecution") =
        IF QueryExecutionId = Undefined THEN 0
        ELSE IF pc = "sleep" THEN Len(sleeps)
        ELSE Len(sleeps) + 1
    /\ pc = "sleep" <=>
        /\ observed # <<>>
        /\ Len(observed) \in PendingObservations
        /\ Len(observed) = CountOp("GetQueryExecution")
        /\ outcome.kind = "pending"

\* two non-terminal observations, two waits, the third status check sent
C17_Witness ==
    /\ Len(sleeps) = MaxPolls
    /\ sleeps[1] = 1000
    /\ sleeps[MaxPolls] = 1000
    /\ Cardinality(PendingObservations) = MaxPolls
    /\ CountOp("GetQueryExecution") = MaxPolls + 1
    /\ Observed("SUCCEEDED")

(* ---------------------------- the query context ----------------------- *)
\* every StartQueryExecution a call sent carries the client's four context
\* fields and the call's own query text
SubmitsCarryContext(f) ==
    \A i \in 1..Len(f.requests) :
        f.requests[i].op = "StartQueryExecution" =>
            /\ f.requests[i].input # Undefined
            /\ f.sqlQuery = Some(f.requests[i].input[1].QueryString)
            /\ f.requests[i].input[1] =
                [QueryString |-> f.requests[i].input[1].QueryString,
                 Database |-> context.database,
                 Catalog |-> context.catalog,
                 WorkGroup |-> context.workGroup,
                 ResultReuseConfiguration |-> context.resultReuseConfiguration]

\* C18: no step of any query() call, successful or failed, changes the client's
\* database, catalog, workgroup or result-reuse policy, and every submit
\* request carries exactly those four values with the caller's query text.
C18_ContextReadOnly ==
    /\ [][context' = context]_vars
    /\ [](SubmitsCarryContext(Frame) /\ SubmitsCarryContext(other))

\* two calls on a client built with its own workgroup and policy, one returned
\* and one failed, each submitted with its own text
C18_Witness ==
    /\ context.workGroup = "wg"
    /\ context.resultReuseConfiguration # DefaultResultReuse
    /\ pc = "done"
    /\ other.pc = "done"
    /\ outcome.kind = "threw"
    /\ other.outcome.kind = "returned"
    /\ sqlQuery # other.sqlQuery
    /\ requests[1].input[1].WorkGroup = "wg"
    /\ Some(other.requests[1].input[1].QueryString) = other.sqlQuery

(* ------------------------------ termination --------------------------- *)
\* C19: when every request is answered, every wait elapses, and the service
\* ends up reporting a terminal state and a page without continuation token,
\* every query() call that was started completes: it returns or it throws.
C19_CallCompletes ==
    (pc = "submit") ~> (pc = "done" /\ outcome # Pending)

\* a call that completed after as many non-terminal observations and as many
\* pages as the service gives
C19_Witness ==
    /\ pc = "done"
    /\ outcome.kind = "returned"
    /\ NumPending = limits.polls
    /\ Len(sleeps) = limits.polls
    /\ Len(pages) = limits.pages

====
